---- MODULE Spec2Model ----
(***************************************************************************)
(* Model of the live-data layer of the Congressional Alpha UI:             *)
(*   - usePolling (lib/usePolling): fetchData, the initial-fetch effect,   *)
(*     the interval effect and refresh();                                  *)
(*   - SignalsClient: the URL-derived view state, setFilter, the          *)
(*     Previous / Next buttons, and the handlers handleConfirm /           *)
(*     handleReject / handleDelete / handleDeleteAll together with the     *)
(*     render conditions of the buttons that invoke them;                  *)
(*   - lib/api: request() and signalsApi.list.                             *)
(* JavaScript runs the component single-threaded: a handler runs up to its *)
(* first await in one step, and its continuation (the code after the       *)
(* await, the catch block, the finally block) runs in one later step.      *)
(* Between the two the request is on the network and at the backend.       *)
(***************************************************************************)
EXTENDS Integers, FiniteSets, Sequences, Bags, TLC

(* ---------------------------- bounds ---------------------------------- *)
MaxId      == 2      \* signal ids are 0..MaxId (0 is the falsy id)
MaxFetches == 2      \* fetchData invocations in one behaviour
MaxActions == 3      \* action requests in flight at a time
MaxTicks   == 3      \* clock advances in one behaviour
MaxLen     == 3      \* characters of the `page` URL parameter

(* ------------------------ program constants --------------------------- *)
POLL_INTERVAL == 30000
PAGE_SIZE     == 20
NULL          == -1   \* JavaScript null / undefined for numbers and dates

TimeStep == POLL_INTERVAL \div 2

Ids      == 0..MaxId
Statuses == {"pending", "pending_confirmation", "confirmed", "rejected", "executed"}
Absent   == "absent"      \* no such row in a list / in the backend store
Filters  == {"unset", "true", "false"}   \* value of the `processed` URL parameter
NoError  == "null"
\* what request() throws: ApiError on a non-2xx response, TypeError when
\* fetch() rejects or the error body is the JSON null, SyntaxError when the
\* body of a 2xx response is not JSON
FetchErrorKinds == {"ApiError", "TypeError", "SyntaxError"}
NullData == [total |-> NULL]             \* data === null

\* rows of the backend store other than the tracked ids at start, all executed
OtherRows == 2 * PAGE_SIZE - 2

(* --------------------- the `page` URL parameter ----------------------- *)
\* a URL parameter value is a sequence of characters; the empty sequence is
\* the absent parameter (searchParams.get gives null) or the empty string
Chars      == {"-", "0", "1", "3", "a"}
DigitChars == <<"0", "1", "2", "3", "4", "5", "6", "7", "8", "9">>
PageParams == UNION {[1..n -> Chars] : n \in 0..MaxLen}

NaN     == -1000000     \* the number NaN
NegZero == -1000001     \* the number -0: equal to 0 in arithmetic and in
                        \* conditions, another value for Object.is

IsDigit(c) == \E d \in 1..Len(DigitChars) : DigitChars[d] = c

DigitValue(c) == (CHOOSE d \in 1..Len(DigitChars) : DigitChars[d] = c) - 1

\* the longest prefix of s made of decimal digits
RECURSIVE DigitPrefix(_)
DigitPrefix(s) ==
    IF s = <<>> \/ ~IsDigit(Head(s)) THEN <<>>
    ELSE <<Head(s)>> \o DigitPrefix(Tail(s))

RECURSIVE DecimalValue(_)
DecimalValue(ds) ==
    IF ds = <<>> THEN 0
    ELSE 10 * DecimalValue(SubSeq(ds, 1, Len(ds) - 1)) + DigitValue(ds[Len(ds)])

\* parseInt(s) of a string without white space or radix prefix: an optional
\* sign, then the leading decimal digits; NaN when there is no digit
parseInt(s) ==
    LET negative == s # <<>> /\ Head(s) = "-"
        digits   == DigitPrefix(IF negative THEN Tail(s) ELSE s)
    IN  IF digits = <<>> THEN NaN
        ELSE IF ~negative THEN DecimalValue(digits)
        ELSE IF DecimalValue(digits) = 0 THEN NegZero
        ELSE 0 - DecimalValue(digits)

\* String(n) of a number
RECURSIVE NatToString(_)
NatToString(n) ==
    IF n < 10 THEN <<DigitChars[n + 1]>>
    ELSE NatToString(n \div 10) \o <<DigitChars[(n % 10) + 1]>>

String(n) ==
    IF n = NaN THEN <<"N", "a", "N">>
    ELSE IF n = NegZero THEN <<"0">>
    ELSE IF n < 0 THEN <<"-">> \o NatToString(0 - n) ELSE NatToString(n)

\* const page = searchParams.get("page") ? parseInt(searchParams.get("page")!) : 1
PageOf(param) == IF param # <<>> THEN parseInt(param) ELSE 1

\* a number in a JavaScript condition
Truthy(n) == n \notin {0, NegZero, NaN}

\* signalsApi.list: the query string, page present only `if (params?.page)`
ListQuery(pg, processed) ==
    [page      |-> IF Truthy(pg) THEN <<String(pg)>> ELSE <<>>,
     page_size |-> String(PAGE_SIZE),
     processed |-> processed]

(* ------------------------ HTTP responses ------------------------------ *)
HttpStatuses == {200, 201, 400, 401, 404, 422, 500, 503}
Undefined    == "undefined"
Details      == {"", "Signal not found", "Signal is not pending confirmation"}

\* response bodies: text that is not JSON, the JSON text null, a JSON string,
\* and JSON objects with or without a `detail` member
Bodies ==
    {[parses |-> FALSE]}
    \cup {[parses |-> TRUE, value |-> v] : v \in {"null", "string"}}
    \cup {[parses |-> TRUE, value |-> "object", detail |-> d] :
              d \in Details \cup {Undefined}}

\* what fetch() settles with: a response, or a rejection when no response
\* arrives
Responses ==
    {[kind |-> "http", status |-> st, body |-> b] : st \in HttpStatuses, b \in Bodies}
    \cup {[kind |-> "networkError"]}

\* response.ok
Ok(status) == 200 <= status /\ status <= 299

\* error.detail for the parsed body `error`
DetailOf(body) == IF body.value = "object" THEN body.detail ELSE Undefined

\* a string in a JavaScript condition
TruthyString(str) == str # Undefined /\ str # ""

\* request(): what the call settles with, given what fetch() settled with
RequestOutcome(r) ==
    IF r.kind = "networkError" THEN [kind |-> "TypeError"]
    ELSE IF ~Ok(r.status)
    THEN LET error == IF r.body.parses THEN r.body
                      ELSE [parses |-> TRUE, value |-> "object",
                            detail |-> "Unknown error"]
         IN  IF error.value = "null" THEN [kind |-> "TypeError"]
             ELSE [kind    |-> "ApiError",
                   status  |-> r.status,
                   message |-> IF TruthyString(DetailOf(error))
                               THEN DetailOf(error) ELSE "Request failed"]
    ELSE IF r.body.parses THEN [kind |-> "value", value |-> r.body]
    ELSE [kind |-> "SyntaxError"]

(* ----------------------- page-level fetches --------------------------- *)
\* fetchDashboardData, fetchTrades, fetchSystemData, fetchPortfolio,
\* fetchPoliticians
PageNames == {"dashboard", "trades", "logs", "portfolio", "politicians"}

\* the backend calls a page-level fetch combines with Promise.all, named by
\* the member of the returned object that holds their result
SubCalls(p) ==
    CASE p = "dashboard" -> {"stats", "tradeStats", "pendingSignals", "politicians",
                             "actionStatus"}
      [] p = "trades"    -> {"trades", "stats"}
      [] p = "logs"      -> {"logs", "config", "schedulerStatus"}
      [] p = "portfolio" -> {"positions", "summary"}
      [] p = "politicians" -> {"politicians", "count"}

\* each sub-call has its own .catch(() => fallback); the other pages wrap the
\* whole Promise.all in one try / catch
CatchesPerSubCall(p) == p = "dashboard"

JsNull     == [kind |-> "null"]
EmptyArray == [kind |-> "array", items |-> <<>>]

ZeroCount  == [kind |-> "count", total |-> 0, house |-> 0, senate |-> 0]

\* the snapshot fetchTrades returns from its catch block
FallbackSnapshot_NoPages ==
    [kind |-> "snapshot", items |-> <<>>, total |-> 0, page |-> 1,
     page_size |-> PAGE_SIZE, pages |-> 0]

FallbackSnapshot ==
    [kind |-> "snapshot", items |-> <<>>, total |-> 0, page |-> 1,
     page_size |-> PAGE_SIZE, pages |-> 1]

\* the value a page-level fetch returns for a source in place of its result
Fallback(p, sub) ==
    CASE sub \in {"pendingSignals", "politicians", "logs", "positions"} -> EmptyArray
      [] p = "trades" /\ sub = "trades" -> FallbackSnapshot
      [] sub = "count" -> ZeroCount
      [] OTHER -> JsNull

\* the value a sub-call resolves with
ResultOf(sub) == [kind |-> "value", of |-> sub]

\* the Promise.all of the page-level fetch has settled: with per-sub-call
\* catches when every sub-call has settled, otherwise at the first rejection
\* or when every sub-call has resolved
PromiseAllSettled(p, subs) ==
    IF CatchesPerSubCall(p)
    THEN \A c \in SubCalls(p) : subs[c] # "pending"
    ELSE \/ \E c \in SubCalls(p) : subs[c] = "failed"
         \/ \A c \in SubCalls(p) : subs[c] = "ok"

\* the object the page-level fetch returns
AggregateResult(p, subs) ==
    LET failedAll == ~CatchesPerSubCall(p) /\ \E c \in SubCalls(p) : subs[c] = "failed"
        members   == [c \in SubCalls(p) |->
                        IF failedAll \/ subs[c] = "failed"
                        THEN Fallback(p, c) ELSE ResultOf(c)]
    IN  [kind   |-> "returned",
         values |-> members,
         error  |-> IF p = "portfolio" /\ failedAll
                    THEN [kind |-> "string", of |-> "String(err)"] ELSE JsNull]

(* ----------------------------- backend -------------------------------- *)
\* legacy `processed` flag of a row, kept in sync with its status
\* a row of the store is its status, with a mark when its processed flag was
\* set directly (markProcessed) and the status left as it was
Flag(st) ==
    CASE st = "pending"              -> "pending/processed"
      [] st = "pending_confirmation" -> "pending_confirmation/processed"
      [] st = "confirmed"            -> "confirmed/processed"
      [] st = "rejected"             -> "rejected/processed"
      [] OTHER                       -> st

FlaggedRows == {Flag(st) : st \in Statuses \ {"executed"}}

\* signal.status of a row
StatusOf(row) ==
    IF row \in FlaggedRows
    THEN CHOOSE st \in Statuses : Flag(st) = row
    ELSE row

\* the row with another status, the processed flag kept
WithStatus(row, st) == IF row \in FlaggedRows THEN Flag(st) ELSE st

IsProcessed(row) == row = "executed" \/ row \in FlaggedRows

MatchesFilter(st, processed) ==
    /\ st # Absent
    /\ CASE processed = "true"  -> IsProcessed(st)
         [] processed = "false" -> ~IsProcessed(st)
         [] OTHER               -> TRUE

Max(a, b) == IF a >= b THEN a ELSE b

Min(a, b) == IF a <= b THEN a ELSE b

CeilDiv(a, b) == (a + b - 1) \div b

\* GET /api/signals?page&page_size&processed: `rest` rows of the store are
\* executed rows older than the tracked ones, so the tracked rows are on the
\* first page; a page outside [1, pages] is clamped
ListSignals(store, rest, pg, processed) ==
    LET matching == {i \in Ids : MatchesFilter(store[i], processed)}
        total    == Cardinality(matching) + (IF processed = "false" THEN 0 ELSE rest)
        pages    == Max(1, CeilDiv(total, PAGE_SIZE))
        shown    == Min(Max(1, pg), pages)
    IN  [items     |-> [i \in Ids |-> IF i \in matching /\ shown = 1
                                      THEN store[i] ELSE Absent],
         total     |-> total,
         page      |-> shown,
         page_size |-> PAGE_SIZE,
         pages     |-> pages]

\* signalsApi.list({page, page_size, processed}) answered by the backend; the
\* backend's default for an absent page parameter is the first page
signalsApiList(store, rest, pg, processed) ==
    LET query == ListQuery(pg, processed)
    IN  ListSignals(store, rest,
                    IF query.page = <<>> THEN 1 ELSE parseInt(query.page[1]),
                    query.processed)

\* POST /api/signals/{id}/confirm|reject, DELETE /api/signals/{id}
ActionValid(store, kind, id) ==
    CASE kind = "confirm" -> StatusOf(store[id]) = "pending_confirmation"
      [] kind = "reject"  -> StatusOf(store[id]) = "pending_confirmation"
      [] kind = "delete"  -> store[id] # Absent
      [] OTHER            -> TRUE

DeletedBy(store, kind) ==
    CASE kind = "deleteProcessed" -> {i \in Ids : store[i] # Absent /\ IsProcessed(store[i])}
      [] kind = "deleteAll"       -> {i \in Ids : store[i] # Absent}
      [] OTHER                    -> {}

ApplyAction(store, kind, id) ==
    CASE kind = "confirm" -> [store EXCEPT ![id] = WithStatus(store[id], "confirmed")]
      [] kind = "reject"  -> [store EXCEPT ![id] = WithStatus(store[id], "rejected")]
      [] kind = "delete"  -> [store EXCEPT ![id] = Absent]
      [] OTHER            -> [i \in Ids |-> IF i \in DeletedBy(store, kind)
                                            THEN Absent ELSE store[i]]

\* the rows beyond the tracked ids are executed: every bulk delete removes them
RestAfter(rest, kind) == IF kind \in {"deleteProcessed", "deleteAll"} THEN 0 ELSE rest

\* the body of the response to DELETE /api/signals?processed_only=..
DeleteAllResponse(store, rest, kind) ==
    [status        |-> "deleted",
     deleted_count |-> Cardinality(DeletedBy(store, kind)) + (rest - RestAfter(rest, kind))]

(* ------------------------------ state --------------------------------- *)
VARIABLES
    backend,        \* the backend's signal store: id -> status or Absent
    others,         \* number of further rows of the store, all executed
    now,            \* wall clock, in ms
    mounted,        \* "new" (constructed), "mounted", "unmounted"
    processedParam, \* the `processed` URL parameter
    page,           \* the page derived from the `page` URL parameter
    nav,            \* history: the control that made the last navigation
    pendingNav,     \* the URL given to router.push and not applied yet
    data, error, isLoading, isRefreshing, lastUpdated,   \* usePolling state
    timerDue,       \* next expiry of the setInterval timer, NULL if none
    nextSeq,        \* issue order of the next fetchData invocation
    fetches,        \* fetchData invocations suspended at `await fetchFn()`
    lastOk,         \* history: the highest-issued fetch that completed successfully
    settled,        \* history: the fetch that completed last, and how
    actionLoading,  \* SignalsClient: id of the signal being acted on, or NULL
    actions,        \* bag of handlers suspended at `await signalsApi.*(...)`
    alerted,        \* the deleted count last reported with alert(), NULL if none
    declined,       \* history: handleDeleteAll's last confirm() was declined
    response,       \* request(): what fetch() settled with, NoResponse before
    outcome,        \* request(): what the call settled with, NoOutcome before
    attempts,       \* request(): number of fetch() calls made
    shown,          \* history: the fetch whose result is in data, with its parameters
    loading,        \* ControlPanel: the trigger being started, or NoLoading
    message,        \* ControlPanel: the message shown, or NoMessage
    triggers,       \* ControlPanel: bag of handleAction calls suspended at the await
    refreshTimers,  \* ControlPanel: bag of the due times of setTimeout(onActionComplete)
    agg,            \* a page-level fetch: the page and the state of its sub-calls
    aggResult       \* what the page-level fetch returned, NoResult before

vars == <<backend, others, now, mounted, processedParam, page, nav, pendingNav,
          data, error, isLoading, isRefreshing, lastUpdated,
          timerDue, nextSeq, fetches, lastOk, settled,
          actionLoading, actions, alerted, declined, response, outcome,
          attempts, shown, loading, message, triggers, refreshTimers,
          agg, aggResult>>

pollVars   == <<data, error, lastUpdated>>
flagVars   == <<isLoading, isRefreshing>>
viewVars   == <<processedParam, page, nav, pendingNav>>
actionVars == <<actionLoading, actions, alerted, declined>>
gatewayVars == <<response, outcome, attempts>>
controlVars == <<loading, message, triggers, refreshTimers>>
pageVars   == <<agg, aggResult>>
uiVars     == <<backend, others, now, mounted, processedParam, page, nav, pendingNav,
                data, error, isLoading, isRefreshing, lastUpdated,
                timerDue, nextSeq, fetches, lastOk, settled, shown,
                actionLoading, actions, alerted, declined,
                loading, message, triggers, refreshTimers, agg, aggResult>>

histVars   == <<lastOk, settled, shown>>

NoFetch == [seq |-> 0]
NoResponse == [kind |-> "none"]
NoOutcome  == [kind |-> "none"]
NoLoading  == "null"
NoNav      == [nav |-> "none"]
NoMessage  == [type |-> "none"]
NoPage     == [page |-> "none"]
NoResult   == [kind |-> "none"]

\* the state after construction for a URL with the given page and processed
\* parameters
InitAt(pageParam, processed) ==
    /\ backend = [i \in Ids |-> IF i <= 1 THEN "pending_confirmation" ELSE "pending"]
    /\ others = OtherRows
    /\ now = 0
    /\ mounted = "new"
    /\ processedParam = processed
    /\ page = PageOf(pageParam)
    /\ nav = "none"
    /\ pendingNav = NoNav
    /\ data = NullData
    /\ error = NoError
    /\ isLoading = TRUE
    /\ isRefreshing = FALSE
    /\ lastUpdated = NULL
    /\ timerDue = NULL
    /\ nextSeq = 1
    /\ fetches = {}
    /\ lastOk = NoFetch
    /\ settled = NoFetch
    /\ actionLoading = NULL
    /\ actions = EmptyBag
    /\ alerted = NULL
    /\ declined = FALSE
    /\ response = NoResponse
    /\ outcome = NoOutcome
    /\ attempts = 0
    /\ shown = NoFetch
    /\ loading = NoLoading
    /\ message = NoMessage
    /\ triggers = EmptyBag
    /\ refreshTimers = EmptyBag
    /\ agg = NoPage
    /\ aggResult = NoResult

\* the signals view opened at /signals
Init == InitAt(<<>>, "unset")

(* ------------------------------ request ------------------------------- *)
\* request() up to the end of `await fetch(url, ...)`: fetch settles with r
fetchSettles(r) ==
    /\ response = NoResponse
    /\ response' = r
    /\ attempts' = attempts + 1
    /\ UNCHANGED <<outcome, uiVars>>

\* a request() that calls fetch() again after a network failure
requestSettles_Retries ==
    /\ response # NoResponse
    /\ outcome = NoOutcome
    /\ IF response.kind = "networkError" /\ attempts < 2
       THEN response' = NoResponse /\ UNCHANGED outcome
       ELSE outcome' = RequestOutcome(response) /\ UNCHANGED response
    /\ UNCHANGED <<attempts, uiVars>>

\* request() after the await: the body is read and the call settles; a
\* rejection of fetch() is not caught and rejects the call
requestSettles ==
    /\ response # NoResponse
    /\ outcome = NoOutcome
    /\ outcome' = RequestOutcome(response)
    /\ UNCHANGED <<response, attempts, uiVars>>

(* ------------------------- page-level fetch --------------------------- *)
\* the page calls its fetch function: every sub-call is sent
callPageFetch(p) ==
    /\ agg = NoPage
    /\ agg' = [page |-> p, subs |-> [c \in SubCalls(p) |-> "pending"]]
    /\ UNCHANGED <<aggResult, gatewayVars, controlVars, backend, others, now, mounted,
                   viewVars, pollVars, flagVars, timerDue, nextSeq, fetches,
                   histVars, actionVars>>

\* a sub-call resolves (ok) or rejects
subCallSettles(c, ok) ==
    /\ agg # NoPage
    /\ aggResult = NoResult
    /\ c \in SubCalls(agg.page)
    /\ agg.subs[c] = "pending"
    /\ agg' = [agg EXCEPT !.subs[c] = IF ok THEN "ok" ELSE "failed"]
    /\ UNCHANGED <<aggResult, gatewayVars, controlVars, backend, others, now, mounted,
                   viewVars, pollVars, flagVars, timerDue, nextSeq, fetches,
                   histVars, actionVars>>

\* the fetch function after `await Promise.all([...])`: the return in the try
\* block or in the catch block
pageFetchReturns ==
    /\ agg # NoPage
    /\ aggResult = NoResult
    /\ PromiseAllSettled(agg.page, agg.subs)
    /\ aggResult' = AggregateResult(agg.page, agg.subs)
    /\ UNCHANGED <<agg, gatewayVars, controlVars, backend, others, now, mounted,
                   viewVars, pollVars, flagVars, timerDue, nextSeq, fetches,
                   histVars, actionVars>>

(* ---------------------------- usePolling ------------------------------ *)
\* the bound on fetchData invocations leaves room for one more
CanIssue == nextSeq <= MaxFetches

\* fetchData(isInitial) up to `await fetchFn()`; fetchFn is the fetchSignals
\* closure over (pg, processed)
fetchData(isInitial, pg, processed) ==
    /\ isLoading' = (IF isInitial THEN TRUE ELSE isLoading)
    /\ isRefreshing' = (IF isInitial THEN isRefreshing ELSE TRUE)
    /\ fetches' = fetches \cup {[seq |-> nextSeq, initial |-> isInitial,
                                 page |-> pg, processed |-> processed]}
    /\ nextSeq' = nextSeq + 1

\* first render: the initial-fetch effect and the interval effect run
Mount ==
    /\ mounted = "new"
    /\ mounted' = "mounted"
    /\ fetchData(TRUE, page, processedParam)
    /\ timerDue' = now + POLL_INTERVAL
    /\ UNCHANGED <<gatewayVars, controlVars, pageVars, backend, others, now, viewVars, pollVars, histVars, actionVars>>

\* a teardown without the interval effect's cleanup
Unmount_KeepsTimer ==
    /\ mounted = "mounted"
    /\ mounted' = "unmounted"
    /\ UNCHANGED <<gatewayVars, controlVars, pageVars, backend, others, now, viewVars, pollVars, flagVars,
                   timerDue, nextSeq, fetches, histVars, actionVars>>

\* teardown: the interval effect's cleanup, clearInterval(timer)
Unmount ==
    /\ mounted = "mounted"
    /\ mounted' = "unmounted"
    /\ timerDue' = NULL
    /\ UNCHANGED <<gatewayVars, controlVars, pageVars, backend, others, now, viewVars, pollVars, flagVars, nextSeq, fetches,
                   histVars, actionVars>>

\* the due times of the armed timers: the interval and the pending timeouts
DueTimes == (IF timerDue = NULL THEN {} ELSE {timerDue}) \cup BagToSet(refreshTimers)

Earliest(S) == CHOOSE d \in S : \A e \in S : d <= e

\* time passes; an armed timer expires before the clock moves past its due time
Advance ==
    /\ now < MaxTicks * TimeStep
    /\ \A d \in DueTimes : now < d
    /\ now' = Earliest({now + TimeStep} \cup DueTimes)
    /\ UNCHANGED <<gatewayVars, controlVars, pageVars, backend, others, mounted, viewVars, pollVars, flagVars, timerDue,
                   nextSeq, fetches, histVars, actionVars>>

\* a setInterval callback that polls only when no fetch is in flight
TimerFire_SkipsWhileBusy ==
    /\ timerDue # NULL
    /\ timerDue = now
    /\ CanIssue
    /\ IF fetches = {}
       THEN fetchData(FALSE, page, processedParam)
       ELSE UNCHANGED <<flagVars, fetches, nextSeq>>
    /\ timerDue' = timerDue + POLL_INTERVAL
    /\ UNCHANGED <<gatewayVars, controlVars, pageVars, backend, others, now, mounted, viewVars, pollVars,
                   histVars, actionVars>>

\* the setInterval callback: fetchData(false)
TimerFire ==
    /\ timerDue # NULL
    /\ timerDue = now
    /\ CanIssue
    /\ fetchData(FALSE, page, processedParam)
    /\ timerDue' = timerDue + POLL_INTERVAL
    /\ UNCHANGED <<gatewayVars, controlVars, pageVars, backend, others, now, mounted, viewVars, pollVars, histVars, actionVars>>

\* the component renders its table and buttons, not the skeleton
Rendered == mounted = "mounted" /\ ~isLoading /\ data # NullData

\* a refresh() that also restarts the interval timer
ClickRefresh_RestartsTimer ==
    /\ Rendered
    /\ ~isRefreshing
    /\ CanIssue
    /\ fetchData(FALSE, page, processedParam)
    /\ timerDue' = now + POLL_INTERVAL
    /\ UNCHANGED <<gatewayVars, controlVars, pageVars, backend, others, now, mounted, viewVars, pollVars,
                   histVars, actionVars>>

\* the refresh button of the page header: refresh()
ClickRefresh ==
    /\ Rendered
    /\ ~isRefreshing
    /\ CanIssue
    /\ fetchData(FALSE, page, processedParam)
    /\ UNCHANGED <<gatewayVars, controlVars, pageVars, backend, others, now, mounted, viewVars, pollVars, timerDue, histVars,
                   actionVars>>

\* FetchSucceeded without setError(null)
FetchSucceeded_KeepsError(f) ==
    /\ f \in fetches
    /\ data' = signalsApiList(backend, others, f.page, f.processed)
    /\ lastUpdated' = now
    /\ isLoading' = FALSE
    /\ isRefreshing' = FALSE
    /\ fetches' = fetches \ {f}
    /\ lastOk' = (IF f.seq > lastOk.seq
                  THEN [seq |-> f.seq,
                        result |-> signalsApiList(backend, others, f.page, f.processed)]
                  ELSE lastOk)
    /\ settled' = [seq |-> f.seq, ok |-> TRUE]
    /\ shown' = [seq |-> f.seq, page |-> f.page, processed |-> f.processed]
    /\ UNCHANGED <<gatewayVars, controlVars, pageVars, backend, others, now, mounted, viewVars, error, timerDue, nextSeq,
                   actionVars>>

\* fetchFn() resolves with the backend's list for the closure's parameters;
\* fetchData after the await, success path, with the finally block
FetchSucceeded(f) ==
    /\ f \in fetches
    /\ data' = signalsApiList(backend, others, f.page, f.processed)
    /\ error' = NoError
    /\ lastUpdated' = now
    /\ isLoading' = FALSE
    /\ isRefreshing' = FALSE
    /\ fetches' = fetches \ {f}
    /\ lastOk' = (IF f.seq > lastOk.seq
                  THEN [seq |-> f.seq,
                        result |-> signalsApiList(backend, others, f.page, f.processed)]
                  ELSE lastOk)
    /\ settled' = [seq |-> f.seq, ok |-> TRUE]
    /\ shown' = [seq |-> f.seq, page |-> f.page, processed |-> f.processed]
    /\ UNCHANGED <<gatewayVars, controlVars, pageVars, backend, others, now, mounted, viewVars, timerDue, nextSeq, actionVars>>

\* FetchFailed with a catch block that also drops the data: setData(null)
FetchFailed_ClearsData(f, e) ==
    /\ f \in fetches
    /\ error' = e
    /\ data' = NullData
    /\ isLoading' = FALSE
    /\ isRefreshing' = FALSE
    /\ fetches' = fetches \ {f}
    /\ settled' = [seq |-> f.seq, ok |-> FALSE]
    /\ UNCHANGED <<gatewayVars, controlVars, pageVars, backend, others, now, mounted, viewVars, lastUpdated, timerDue,
                   nextSeq, lastOk, shown, actionVars>>

\* fetchFn() rejects with e; fetchData's catch path, with the finally block
FetchFailed(f, e) ==
    /\ f \in fetches
    /\ error' = e
    /\ isLoading' = FALSE
    /\ isRefreshing' = FALSE
    /\ fetches' = fetches \ {f}
    /\ settled' = [seq |-> f.seq, ok |-> FALSE]
    /\ UNCHANGED <<gatewayVars, controlVars, pageVars, backend, others, now, mounted, viewVars, data, lastUpdated, timerDue,
                   nextSeq, lastOk, shown, actionVars>>

(* ------------------- DashboardClient, ControlPanel -------------------- *)
REFRESH_DELAY == 1000

\* what GET /api/actions/status answers
ActionStatuses ==
    [kind : {"status"}, scraper_running : BOOLEAN, trader_running : BOOLEAN]

\* a fetchDashboardData whose sub-calls carry no .catch
fetchDashboardData_NoCatch(failed, status) ==
    IF failed # {}
    THEN [kind |-> "threw", error |-> "ApiError"]
    ELSE LET r == AggregateResult("dashboard", [c \in SubCalls("dashboard") |-> "ok"])
         IN  [r EXCEPT !.values["actionStatus"] = status]

\* fetchDashboardData when the sub-calls in `failed` reject and the others
\* resolve, the status call with `status`
fetchDashboardData(failed, status) ==
    LET r == AggregateResult("dashboard",
                 [c \in SubCalls("dashboard") |-> IF c \in failed THEN "failed" ELSE "ok"])
    IN  IF "actionStatus" \in failed THEN r
        ELSE [r EXCEPT !.values["actionStatus"] = status]

\* a dashboard fetch settles: fetchData after `await fetchFn()`, with the
\* finally block
DashboardFetchSettles(f, failed, status) ==
    /\ f \in fetches
    /\ LET r == fetchDashboardData(failed, status)
       IN  IF r.kind = "returned"
           THEN /\ data' = r
                /\ error' = NoError
                /\ lastUpdated' = now
                /\ settled' = [seq |-> f.seq, ok |-> TRUE]
           ELSE /\ error' = r.error
                /\ settled' = [seq |-> f.seq, ok |-> FALSE]
                /\ UNCHANGED <<data, lastUpdated>>
    /\ isLoading' = FALSE
    /\ isRefreshing' = FALSE
    /\ fetches' = fetches \ {f}
    /\ UNCHANGED <<gatewayVars, controlVars, pageVars, backend, others, now, mounted,
                   viewVars, timerDue, nextSeq, lastOk, shown, actionVars>>

\* const actionStatus = data?.actionStatus ?? null
actionStatus ==
    IF "values" \in DOMAIN data THEN data.values["actionStatus"] ELSE JsNull

scraperRunning == IF actionStatus.kind = "status" THEN actionStatus.scraper_running ELSE FALSE
traderRunning  == IF actionStatus.kind = "status" THEN actionStatus.trader_running ELSE FALSE
anyRunning     == scraperRunning \/ traderRunning

TriggerKinds == {"scrape", "trade", "cycle"}

\* the ControlPanel is rendered: the dashboard is mounted and past its skeleton
ControlPanelShown == mounted = "mounted" /\ ~isLoading

\* trigger buttons that are disabled only while the backend reports a run
TriggerDisabled_IgnoresLoading(k) ==
    CASE k = "scrape" -> scraperRunning
      [] k = "trade"  -> traderRunning
      [] k = "cycle"  -> anyRunning

\* the disabled attribute of the three trigger buttons
TriggerDisabled(k) ==
    \/ loading # NoLoading
    \/ CASE k = "scrape" -> scraperRunning
         [] k = "trade"  -> traderRunning
         [] k = "cycle"  -> anyRunning

\* a click on a trigger button: handleAction up to `await apiCall()`
handleAction(k) ==
    /\ ControlPanelShown
    /\ ~TriggerDisabled(k)
    /\ BagCardinality(triggers) + BagCardinality(refreshTimers) < MaxActions
    /\ loading' = k
    /\ message' = NoMessage
    /\ triggers' = triggers (+) SetToBag({k})
    /\ UNCHANGED <<refreshTimers, now, mounted, pollVars, flagVars, timerDue, nextSeq,
                   fetches, gatewayVars, pageVars, backend, others, viewVars, histVars, actionVars>>

\* a resolved trigger that calls onActionComplete() at once
TriggerResolved_RefreshesAtOnce(k) ==
    /\ BagIn(k, triggers)
    /\ CanIssue
    /\ triggers' = triggers (-) SetToBag({k})
    /\ message' = [type |-> "success", text |-> "result.message"]
    /\ fetchData(FALSE, page, processedParam)
    /\ loading' = NoLoading
    /\ UNCHANGED <<refreshTimers, now, mounted, pollVars, timerDue, gatewayVars, pageVars, backend, others, viewVars, histVars, actionVars>>

\* apiCall() resolves: the rest of the try block, then the finally block
TriggerResolved(k) ==
    /\ BagIn(k, triggers)
    /\ triggers' = triggers (-) SetToBag({k})
    /\ message' = [type |-> "success", text |-> "result.message"]
    /\ refreshTimers' = refreshTimers (+) SetToBag({now + REFRESH_DELAY})
    /\ loading' = NoLoading
    /\ UNCHANGED <<now, mounted, pollVars, flagVars, timerDue, nextSeq, fetches,
                   gatewayVars, pageVars, backend, others, viewVars, histVars, actionVars>>

\* apiCall() rejects with e: the catch block, then the finally block
TriggerRejected(k, e) ==
    /\ BagIn(k, triggers)
    /\ triggers' = triggers (-) SetToBag({k})
    /\ message' = [type |-> "error", text |-> e]
    /\ loading' = NoLoading
    /\ UNCHANGED <<refreshTimers, now, mounted, pollVars, flagVars, timerDue, nextSeq,
                   fetches, gatewayVars, pageVars, backend, others, viewVars, histVars, actionVars>>

\* a timeout set by handleAction expires: onActionComplete(), the dashboard's
\* refresh()
RefreshTimeout ==
    /\ BagIn(now, refreshTimers)
    /\ CanIssue
    /\ refreshTimers' = refreshTimers (-) SetToBag({now})
    /\ fetchData(FALSE, page, processedParam)
    /\ UNCHANGED <<loading, message, triggers, now, mounted, pollVars, timerDue,
                   gatewayVars, pageVars, backend, others, viewVars, histVars, actionVars>>

(* --------------------------- SignalsClient ---------------------------- *)
\* setFilter: router.push of a URL that carries only the processed parameter;
\* the navigation it asks for happens later (NavigationCommit), and the last
\* URL pushed is the one that is applied. First a setFilter whose URL also
\* carries the current page.
setFilter_KeepsPage(value) ==
    /\ Rendered
    /\ pendingNav' = [pageParam |-> String(page), processed |-> value, nav |-> "filter"]
    /\ UNCHANGED <<gatewayVars, controlVars, pageVars, backend, others, now, mounted,
                   processedParam, page, nav, pollVars, flagVars, timerDue, nextSeq,
                   fetches, histVars, actionVars>>

setFilter(value) ==
    /\ Rendered
    /\ pendingNav' = [pageParam |-> <<>>, processed |-> value, nav |-> "filter"]
    /\ UNCHANGED <<gatewayVars, controlVars, pageVars, backend, others, now, mounted,
                   processedParam, page, nav, pollVars, flagVars, timerDue, nextSeq,
                   fetches, histVars, actionVars>>

\* the URL given to router.push becomes the URL of the page: useSearchParams
\* gives the mounted component the new parameters. A changed (page, processed)
\* gives a new fetchSignals, hence a new fetchData: the initial-fetch effect
\* runs again and the interval effect is re-armed.
NavigationCommit ==
    /\ mounted = "mounted"
    /\ pendingNav # NoNav
    /\ pendingNav' = NoNav
    /\ LET newPage == PageOf(pendingNav.pageParam)
           value   == pendingNav.processed
       IN  IF newPage = page /\ value = processedParam
           THEN UNCHANGED <<gatewayVars, controlVars, pageVars, backend, others, now,
                            mounted, processedParam, page, nav, pollVars, flagVars,
                            timerDue, nextSeq, fetches, histVars, actionVars>>
           ELSE /\ CanIssue
                /\ page' = newPage
                /\ processedParam' = value
                /\ nav' = pendingNav.nav
                /\ fetchData(TRUE, newPage, value)
                /\ timerDue' = now + POLL_INTERVAL
                /\ UNCHANGED <<gatewayVars, controlVars, pageVars, backend, others, now,
                               mounted, pollVars, histVars, actionVars>>

\* the browser's back / forward or an edited URL: useSearchParams gives the
\* mounted component other parameters, whatever it is rendering
HistoryNavigate(pageParam, value) ==
    /\ mounted = "mounted"
    /\ IF PageOf(pageParam) = page /\ processedParam = value
       THEN UNCHANGED vars
       ELSE /\ CanIssue
            /\ page' = PageOf(pageParam)
            /\ processedParam' = value
            /\ nav' = "history"
            /\ fetchData(TRUE, PageOf(pageParam), value)
            /\ timerDue' = now + POLL_INTERVAL
            /\ UNCHANGED <<gatewayVars, controlVars, pageVars, backend, others, now,
                           mounted, pendingNav, pollVars, histVars, actionVars>>

\* the pagination bar: {signals.pages > 1 && (...)}
PaginationShown == Rendered /\ data.pages > 1

\* {signals.page > 1 && (<button>Previous</button>)}
PrevShown == PaginationShown /\ data.page > 1

\* a Next button rendered on every page
NextShown_Always == PaginationShown

\* {signals.page < signals.pages && (<button>Next</button>)}
NextShown == PaginationShown /\ data.page < data.pages

\* onClick of Previous / Next: router.push of a URL with page = String(target)
\* and the current `processed` when it is defined
goToPage(target, control) ==
    /\ pendingNav' = [pageParam |-> String(target), processed |-> processedParam,
                      nav |-> control]
    /\ UNCHANGED <<gatewayVars, controlVars, pageVars, backend, others, now, mounted,
                   processedParam, page, nav, pollVars, flagVars, timerDue, nextSeq,
                   fetches, histVars, actionVars>>

ClickPrev == PrevShown /\ goToPage(data.page - 1, "prev")

ClickNext == NextShown /\ goToPage(data.page + 1, "next")

\* the confirm/reject buttons rendered for every row that has an id
ConfirmRejectShown_AnyStatus(id) ==
    /\ Rendered
    /\ data.items[id] # Absent
    /\ id # 0

\* {signal.status === "pending_confirmation" && signal.id && (...)}
ConfirmRejectShown(id) ==
    /\ Rendered
    /\ StatusOf(data.items[id]) = "pending_confirmation"
    /\ id # 0

\* {signal.id && (...)} for a row of signals.items
DeleteShown(id) ==
    /\ Rendered
    /\ data.items[id] # Absent
    /\ id # 0

\* disabled={actionLoading === signal.id}
ButtonDisabled(id) == actionLoading = id

SingleKinds == {"confirm", "reject", "delete"}
BulkKinds   == {"deleteProcessed", "deleteAll"}

\* a handler up to its await: the request is dispatched; `refresh` is the
\* closure of the render in which the handler was created
Dispatch(kind, id) ==
    /\ BagCardinality(actions) < MaxActions
    /\ actions' = actions (+) SetToBag({[kind |-> kind, id |-> id, page |-> page,
                                         processed |-> processedParam]})

handleConfirm(signalId) ==
    /\ actionLoading' = signalId
    /\ Dispatch("confirm", signalId)
    /\ UNCHANGED <<gatewayVars, controlVars, pageVars, backend, others, now, mounted, viewVars, pollVars, flagVars, timerDue,
                   nextSeq, fetches, histVars, alerted, declined>>

handleReject(signalId) ==
    /\ actionLoading' = signalId
    /\ Dispatch("reject", signalId)
    /\ UNCHANGED <<gatewayVars, controlVars, pageVars, backend, others, now, mounted, viewVars, pollVars, flagVars, timerDue,
                   nextSeq, fetches, histVars, alerted, declined>>

\* `ok` is the answer to the confirm() dialog
handleDelete(signalId, ok) ==
    IF ~ok
    THEN UNCHANGED vars
    ELSE /\ actionLoading' = signalId
         /\ Dispatch("delete", signalId)
         /\ UNCHANGED <<gatewayVars, controlVars, pageVars, backend, others, now, mounted, viewVars, pollVars, flagVars,
                        timerDue, nextSeq, fetches, histVars, alerted, declined>>

\* handleDeleteAll without the confirm() gate: the request is sent whatever
\* the answer
handleDeleteAll_NoGate(processedOnly, ok) ==
    /\ declined' = ~ok
    /\ Dispatch(IF processedOnly THEN "deleteProcessed" ELSE "deleteAll", NULL)
    /\ UNCHANGED <<gatewayVars, controlVars, pageVars, backend, others, now, mounted, viewVars,
                   pollVars, flagVars, timerDue, nextSeq, fetches, histVars,
                   actionLoading, alerted>>

\* `ok` is the answer to the confirm(message) dialog; processedOnly only
\* selects the message and the query of the DELETE
handleDeleteAll(processedOnly, ok) ==
    IF ~ok
    THEN /\ declined' = TRUE
         /\ UNCHANGED <<gatewayVars, controlVars, pageVars, backend, others, now, mounted, viewVars,
                        pollVars, flagVars, timerDue, nextSeq, fetches, histVars,
                        actionLoading, actions, alerted>>
    ELSE /\ declined' = FALSE
         /\ Dispatch(IF processedOnly THEN "deleteProcessed" ELSE "deleteAll", NULL)
         /\ UNCHANGED <<gatewayVars, controlVars, pageVars, backend, others, now, mounted, viewVars,
                        pollVars, flagVars, timerDue, nextSeq, fetches, histVars,
                        actionLoading, alerted>>

ClickConfirm(id) ==
    ConfirmRejectShown(id) /\ ~ButtonDisabled(id) /\ handleConfirm(id)

ClickReject(id) ==
    ConfirmRejectShown(id) /\ ~ButtonDisabled(id) /\ handleReject(id)

ClickDelete(id, ok) ==
    DeleteShown(id) /\ ~ButtonDisabled(id) /\ handleDelete(id, ok)

ClickDeleteAll(processedOnly, ok) ==
    Rendered /\ handleDeleteAll(processedOnly, ok)

\* ActionResolved with an optimistic update of the displayed row
ActionResolved_Optimistic(a) ==
    /\ BagIn(a, actions)
    /\ a.kind \in SingleKinds
    /\ ActionValid(backend, a.kind, a.id)
    /\ CanIssue
    /\ backend' = ApplyAction(backend, a.kind, a.id)
    /\ fetchData(FALSE, a.page, a.processed)
    /\ actionLoading' = NULL
    /\ actions' = actions (-) SetToBag({a})
    /\ data' = (IF data = NullData THEN data
                ELSE [data EXCEPT !.items = ApplyAction(data.items, a.kind, a.id)])
    /\ UNCHANGED <<gatewayVars, controlVars, pageVars, others, now, mounted, viewVars, error, lastUpdated, timerDue,
                   histVars, alerted, declined>>

\* the backend executes the request; handleConfirm / handleReject /
\* handleDelete after the await: refresh(), then the finally block
ActionResolved(a) ==
    /\ BagIn(a, actions)
    /\ a.kind \in SingleKinds
    /\ ActionValid(backend, a.kind, a.id)
    /\ CanIssue
    /\ backend' = ApplyAction(backend, a.kind, a.id)
    /\ fetchData(FALSE, a.page, a.processed)
    /\ actionLoading' = NULL
    /\ actions' = actions (-) SetToBag({a})
    /\ UNCHANGED <<gatewayVars, controlVars, pageVars, others, now, mounted, viewVars, pollVars, timerDue, histVars,
                   alerted, declined>>

\* ActionRejected with the lock released on the success path only
ActionRejected_LockKept(a) ==
    /\ BagIn(a, actions)
    /\ a.kind \in SingleKinds
    /\ actions' = actions (-) SetToBag({a})
    /\ UNCHANGED <<gatewayVars, controlVars, pageVars, backend, others, now, mounted, viewVars, pollVars, flagVars, timerDue,
                   nextSeq, fetches, histVars, actionLoading, alerted, declined>>

\* the request fails (non-2xx response or no response); handleConfirm /
\* handleReject / handleDelete: the catch block, then finally
ActionRejected(a) ==
    /\ BagIn(a, actions)
    /\ a.kind \in SingleKinds
    /\ actionLoading' = NULL
    /\ actions' = actions (-) SetToBag({a})
    /\ UNCHANGED <<gatewayVars, controlVars, pageVars, backend, others, now, mounted, viewVars, pollVars, flagVars, timerDue,
                   nextSeq, fetches, histVars, alerted, declined>>

\* a handleDeleteAll that reports the number of rows it displays
DeleteAllResolved_CountsShownRows(a) ==
    /\ BagIn(a, actions)
    /\ a.kind \in BulkKinds
    /\ CanIssue
    /\ backend' = ApplyAction(backend, a.kind, a.id)
    /\ others' = RestAfter(others, a.kind)
    /\ alerted' = (IF data = NullData THEN 0 ELSE data.total)
    /\ fetchData(FALSE, a.page, a.processed)
    /\ actions' = actions (-) SetToBag({a})
    /\ UNCHANGED <<gatewayVars, controlVars, pageVars, now, mounted, viewVars, pollVars, timerDue, histVars,
                   actionLoading, declined>>

\* the backend executes the bulk delete; handleDeleteAll after the await:
\* alert(deleted_count), refresh()
DeleteAllResolved(a) ==
    /\ BagIn(a, actions)
    /\ a.kind \in BulkKinds
    /\ CanIssue
    /\ backend' = ApplyAction(backend, a.kind, a.id)
    /\ others' = RestAfter(others, a.kind)
    /\ alerted' = DeleteAllResponse(backend, others, a.kind).deleted_count
    /\ fetchData(FALSE, a.page, a.processed)
    /\ actions' = actions (-) SetToBag({a})
    /\ UNCHANGED <<gatewayVars, controlVars, pageVars, now, mounted, viewVars, pollVars, timerDue, histVars,
                   actionLoading, declined>>

\* the bulk delete fails; handleDeleteAll: the catch block
DeleteAllRejected(a) ==
    /\ BagIn(a, actions)
    /\ a.kind \in BulkKinds
    /\ actions' = actions (-) SetToBag({a})
    /\ UNCHANGED <<gatewayVars, controlVars, pageVars, backend, others, now, mounted, viewVars, pollVars, flagVars, timerDue,
                   nextSeq, fetches, histVars, actionLoading, alerted, declined>>

\* transitions the backend makes on its own
BackendAdvance(id) ==
    /\ backend[id] \in {"pending", "confirmed"}
    /\ backend' = [backend EXCEPT ![id] = IF backend[id] = "pending"
                                          THEN "pending_confirmation"
                                          ELSE "executed"]
    /\ UNCHANGED <<gatewayVars, controlVars, pageVars, others, now, mounted, viewVars, pollVars, flagVars, timerDue,
                   nextSeq, fetches, histVars, actionVars>>

\* signalsApi.markProcessed(id), for any caller of the exported API: POST
\* /api/signals/{id}/process sets the processed flag of a pending row
markProcessed(id) ==
    /\ backend[id] \in {"pending", "pending_confirmation"}
    /\ backend' = [backend EXCEPT ![id] = Flag(backend[id])]
    /\ UNCHANGED <<gatewayVars, controlVars, pageVars, others, now, mounted, viewVars,
                   pollVars, flagVars, timerDue, nextSeq, fetches, histVars, actionVars>>

Next ==
    \/ Mount
    \/ Unmount
    \/ Advance
    \/ TimerFire
    \/ ClickRefresh
    \/ \E f \in fetches : FetchSucceeded(f)
    \/ \E f \in fetches, e \in FetchErrorKinds : FetchFailed(f, e)
    \/ \E v \in Filters : setFilter(v)
    \/ NavigationCommit
    \/ ClickPrev
    \/ ClickNext
    \/ \E pageParam \in PageParams, v \in Filters : HistoryNavigate(pageParam, v)
    \/ \E id \in Ids : ClickConfirm(id)
    \/ \E id \in Ids : ClickReject(id)
    \/ \E id \in Ids, ok \in BOOLEAN : ClickDelete(id, ok)
    \/ \E po \in BOOLEAN, ok \in BOOLEAN : ClickDeleteAll(po, ok)
    \/ \E a \in BagToSet(actions) : ActionResolved(a)
    \/ \E a \in BagToSet(actions) : ActionRejected(a)
    \/ \E a \in BagToSet(actions) : DeleteAllResolved(a)
    \/ \E a \in BagToSet(actions) : DeleteAllRejected(a)
    \/ \E id \in Ids : BackendAdvance(id)
    \/ \E id \in Ids : markProcessed(id)

Spec == Init /\ [][Next]_vars

NextSignals ==
    \/ Mount
    \/ ClickRefresh
    \/ \E f \in fetches : FetchSucceeded(f)
    \/ \E f \in fetches, e \in FetchErrorKinds : FetchFailed(f, e)
    \/ \E id \in Ids : ClickConfirm(id)
    \/ \E id \in Ids : ClickReject(id)
    \/ \E id \in Ids, ok \in BOOLEAN : ClickDelete(id, ok)
    \/ \E po \in BOOLEAN, ok \in BOOLEAN : ClickDeleteAll(po, ok)
    \/ \E a \in BagToSet(actions) : ActionResolved(a)
    \/ \E a \in BagToSet(actions) : ActionRejected(a)
    \/ \E a \in BagToSet(actions) : DeleteAllResolved(a)
    \/ \E a \in BagToSet(actions) : DeleteAllRejected(a)

NextPoll ==
    \/ Mount
    \/ Unmount
    \/ Advance
    \/ TimerFire
    \/ ClickRefresh
    \/ \E f \in fetches : FetchSucceeded(f)
    \/ \E f \in fetches, e \in FetchErrorKinds : FetchFailed(f, e)
    \/ \E v \in Filters : setFilter(v)
    \/ NavigationCommit
    \/ \E id \in Ids : BackendAdvance(id)

NextStale ==
    \/ Mount
    \/ \E pageParam \in PageParams, v \in Filters : HistoryNavigate(pageParam, v)
    \/ \E f \in fetches : FetchSucceeded(f)
    \/ \E f \in fetches, e \in FetchErrorKinds : FetchFailed(f, e)

\* the signals view whose URL parameters change while fetches are in flight
SpecStale == Init /\ [][NextStale]_vars

AllSubCalls == UNION {SubCalls(p) : p \in PageNames}

NextPages ==
    \/ \E p \in PageNames : callPageFetch(p)
    \/ \E c \in AllSubCalls, ok \in BOOLEAN : subCallSettles(c, ok)
    \/ pageFetchReturns

\* one page-level fetch of every page under every outcome of its sub-calls
SpecPages == Init /\ [][NextPages]_vars

NextDashboard ==
    \/ Mount
    \/ Unmount
    \/ Advance
    \/ TimerFire
    \/ ClickRefresh
    \/ \E f \in fetches, failed \in SUBSET SubCalls("dashboard"), st \in ActionStatuses :
          DashboardFetchSettles(f, failed, st)

\* the dashboard: usePolling over fetchDashboardData
SpecDashboard == Init /\ [][NextDashboard]_vars

NextControl ==
    \/ Mount
    \/ \E f \in fetches, failed \in SUBSET SubCalls("dashboard"), st \in ActionStatuses :
          DashboardFetchSettles(f, failed, st)
    \/ \E k \in TriggerKinds : handleAction(k)
    \/ \E k \in TriggerKinds : TriggerResolved(k)
    \/ \E k \in TriggerKinds, e \in FetchErrorKinds : TriggerRejected(k, e)

\* the control panel of the dashboard: the trigger buttons, under every
\* result of the first dashboard fetch
SpecControl == Init /\ [][NextControl]_vars

\* the dashboard once its first fetch has settled, at time 0, with any result
\* of fetchDashboardData: the state after Mount and DashboardFetchSettles
InitLoaded ==
    \E failed \in SUBSET SubCalls("dashboard"), st \in ActionStatuses :
        /\ backend = [i \in Ids |-> IF i <= 1 THEN "pending_confirmation" ELSE "pending"]
        /\ others = OtherRows
        /\ now = 0
        /\ mounted = "mounted"
        /\ processedParam = "unset"
        /\ page = PageOf(<<>>)
        /\ nav = "none"
        /\ pendingNav = NoNav
        /\ data = fetchDashboardData(failed, st)
        /\ error = NoError
        /\ isLoading = FALSE
        /\ isRefreshing = FALSE
        /\ lastUpdated = 0
        /\ timerDue = POLL_INTERVAL
        /\ nextSeq = 2
        /\ fetches = {}
        /\ lastOk = NoFetch
        /\ settled = [seq |-> 1, ok |-> TRUE]
        /\ actionLoading = NULL
        /\ actions = EmptyBag
        /\ alerted = NULL
        /\ declined = FALSE
        /\ response = NoResponse
        /\ outcome = NoOutcome
        /\ attempts = 0
        /\ shown = NoFetch
        /\ loading = NoLoading
        /\ message = NoMessage
        /\ triggers = EmptyBag
        /\ refreshTimers = EmptyBag
        /\ agg = NoPage
        /\ aggResult = NoResult

NextRefresh ==
    \/ Advance
    \/ TimerFire
    \/ \E k \in TriggerKinds : handleAction(k)
    \/ \E k \in TriggerKinds : TriggerResolved(k)
    \/ \E k \in TriggerKinds, e \in FetchErrorKinds : TriggerRejected(k, e)
    \/ RefreshTimeout

\* the control panel of the loaded dashboard over time: the triggers, the
\* timeouts they set and the refresh fetches these issue
SpecRefresh == InitLoaded /\ [][NextRefresh]_vars

NextGateway ==
    \/ \E r \in Responses : fetchSettles(r)
    \/ requestSettles

\* one call of request() against every response
SpecGateway == Init /\ [][NextGateway]_vars

NextView ==
    \/ Mount
    \/ \E f \in fetches : FetchSucceeded(f)
    \/ \E f \in fetches, e \in FetchErrorKinds : FetchFailed(f, e)
    \/ \E v \in Filters : setFilter(v)
    \/ NavigationCommit
    \/ ClickPrev
    \/ ClickNext

\* the signals view opened at any /signals?page=..&processed=.. URL
InitView == \E pageParam \in PageParams, v \in Filters : InitAt(pageParam, v)

\* navigation of the signals view: filter buttons and Previous / Next
SpecView == InitView /\ [][NextView]_vars

\* usePolling under the signals view, without the action handlers
SpecPoll == Init /\ [][NextPoll]_vars

\* the signals view with its action handlers on one page of one filter, the
\* clock standing still
SpecSignals == Init /\ [][NextSignals]_vars

(* ------------------------------ claims -------------------------------- *)
\* single-entity action requests in flight for a signal id
Pending == BagToSet(actions)

\* a step in which the pending call a settles
Settles(a) == CopiesIn(a, actions') < CopiesIn(a, actions)

\* a step in which a call a is dispatched
Dispatches(a) == CopiesIn(a, actions') > CopiesIn(a, actions)

InFlight(id) == {a \in Pending : a.kind \in SingleKinds /\ a.id = id}

\* the number of single-entity action requests in flight for a signal id
NumInFlight(id) ==
    BagCardinality([a \in InFlight(id) |-> actions[a]])

\* C1: the displayed snapshot always equals the result of the fetch with the
\* highest issue order among the fetches that have completed successfully.
C1_DisplayedIsNewestCompleted ==
    lastOk.seq > 0 => data = lastOk.result

\* C2: a completion (success or failure) of a fetch that is not the last one
\* issued is discarded: it changes none of data, error, lastUpdated.
C2_StaleCompletionDiscarded ==
    [][\A f \in fetches :
          (f \notin fetches' /\ f.seq < nextSeq - 1) => UNCHANGED pollVars]_vars

\* C3: at most one single-entity action request (confirm, reject or delete)
\* is in flight for a signal id at any time.
C3_OneActionPerId ==
    \A id \in Ids : NumInFlight(id) <= 1

\* C4: a signal id is marked in-progress in the action lock exactly when an
\* action on that id is in flight.
C4_LockedIffInFlight ==
    \A id \in Ids : ButtonDisabled(id) <=> InFlight(id) # {}

\* C5: whenever a confirm, reject or delete call for a signal id settles, with
\* success or with failure, the lock for that id is released: the buttons of
\* that id are not disabled by the lock in the state the settlement leaves.
C5_SettleReleasesLock ==
    [][\A a \in Pending :
          (a.kind \in SingleKinds /\ Settles(a)) => actionLoading' # a.id]_vars

\* C5 witness: a confirm or reject on an id was executed and has settled, and
\* the id is not locked.
C5_Witness ==
    \E id \in Ids : /\ backend[id] \in {"confirmed", "rejected"}
                    /\ InFlight(id) = {}
                    /\ ~ButtonDisabled(id)

\* C6: after every mutating signal action (confirm, reject, delete, deleteAll)
\* completes, whether the call succeeded or failed, a refresh() is requested:
\* the settling step invokes fetchData.
C6_SettleRequestsRefresh ==
    [][\A a \in Pending : Settles(a) => nextSeq' = nextSeq + 1]_vars

\* C7: when a fetch completes with a failure, data and lastUpdated are the same
\* after the completion as before it, error is set, and the loading and
\* refreshing flags are cleared.
C7_FailedFetchKeepsData ==
    [][\A f \in fetches :
          (f \notin fetches' /\ settled'.seq = f.seq /\ ~settled'.ok)
          => /\ data' = data
             /\ lastUpdated' = lastUpdated
             /\ error' # NoError
             /\ ~isLoading'
             /\ ~isRefreshing']_vars

\* C7 witness: the last completed fetch failed while a snapshot fetched earlier
\* is displayed.
C7_Witness ==
    /\ settled.seq > 0
    /\ ~settled.ok
    /\ data # NullData
    /\ lastUpdated # NULL
    /\ error # NoError

\* C8: when a fetch completes successfully its result replaces data, error
\* becomes absent, lastUpdated is stamped with the current time, and the
\* loading and refreshing flags are cleared.
C8_SuccessfulFetchReplacesData ==
    [][\A f \in fetches :
          (f \notin fetches' /\ settled'.seq = f.seq /\ settled'.ok)
          => /\ data' = signalsApiList(backend, others, f.page, f.processed)
             /\ error' = NoError
             /\ lastUpdated' = now
             /\ ~isLoading'
             /\ ~isRefreshing']_vars

\* C8 witness: a fetch issued after the first one completed successfully at a
\* later time, and no error is displayed.
C8_Witness ==
    /\ settled.seq > 1
    /\ settled.ok
    /\ data # NullData
    /\ lastUpdated = now
    /\ now > 0
    /\ error = NoError

\* C9: data, error and lastUpdated change only in a step in which a fetch
\* completes; no step of a signal action changes them.
C9_SingleWriter ==
    [][(data' # data \/ error' # error \/ lastUpdated' # lastUpdated)
          => \E f \in fetches : f \notin fetches']_vars

\* C9 witness: a confirm or reject was executed by the backend and has settled
\* while the displayed snapshot still shows the row as pending_confirmation.
C9_Witness ==
    \E id \in Ids : /\ backend[id] \in {"confirmed", "rejected"}
                    /\ InFlight(id) = {}
                    /\ data # NullData
                    /\ data.items[id] = "pending_confirmation"

\* C10: a confirm or reject request is dispatched only for a signal that has
\* an id and whose status in the displayed snapshot is pending_confirmation.
C10_ConfirmRejectOnlyPendingConfirmation ==
    [][\A a \in BagToSet(actions') :
          (Dispatches(a) /\ a.kind \in {"confirm", "reject"})
          => /\ data # NullData
             /\ a.id # 0
             /\ StatusOf(data.items[a.id]) = "pending_confirmation"]_vars

\* C10 witness: a confirm or reject is in flight while the displayed snapshot
\* also holds a row in another status, for which no such request is in flight.
C10_Witness ==
    /\ \E a \in BagToSet(actions) : a.kind \in {"confirm", "reject"}
    /\ data # NullData
    /\ \E id \in Ids : /\ data.items[id] \notin {Absent, "pending_confirmation"}
                       /\ InFlight(id) = {}

\* C11: a bulk delete is dispatched only in a step in which the confirmation
\* dialog of handleDeleteAll was accepted; a step in which the dialog is
\* declined sends no request, requests no refresh and changes no state, for
\* processedOnly true and false alike.
C11_DeclinedDeleteAllDoesNothing ==
    [][/\ \A a \in BagToSet(actions') :
             (Dispatches(a) /\ a.kind \in BulkKinds) => ~declined'
       /\ (declined' /\ ~declined)
             => UNCHANGED <<backend, others, now, mounted, viewVars, pollVars,
                            flagVars, timerDue, nextSeq, fetches, histVars,
                            actionLoading, actions, alerted, gatewayVars>>]_vars

\* C11 witness: the dialog of a bulk delete was declined; nothing is in
\* flight, nothing was deleted and nothing was reported.
C11_Witness ==
    /\ declined
    /\ Rendered
    /\ BagToSet(actions) = {}
    /\ fetches = {}
    /\ others = OtherRows
    /\ alerted = NULL
    /\ \A i \in Ids : backend[i] # Absent

\* C12: isLoading is true only before the first fetch of the usePolling
\* instance completes: once a fetch has completed, with success or failure,
\* isLoading is false in every later state.
C12_LoadingOnlyBeforeFirstCompletion ==
    settled.seq > 0 => ~isLoading

\* C13: in every state in which a non-initial fetch (started by the interval
\* timer or by refresh()) is in flight, isRefreshing is true; the completion
\* of another, overlapping fetch does not clear it.
C13_RefreshingWhileNonInitialInFlight ==
    (\E f \in fetches : ~f.initial) => isRefreshing

\* a step that issues exactly one fetch, the next in issue order, marked
\* initial or not
IssuesOne(isInitial) ==
    \E f \in fetches' :
        /\ f \notin fetches
        /\ fetches' = fetches \cup {f}
        /\ f.seq = nextSeq
        /\ f.initial = isInitial

\* C14: the step that starts the scheduler issues exactly one fetch, marked
\* initial, sets isLoading and arms the timer one interval (30000 ms) ahead;
\* the clock never passes the expiry of an armed timer; and an armed timer
\* moves, the view state unchanged, only at its expiry, in a step that issues
\* exactly one non-initial fetch and sets isRefreshing, whether or not another
\* fetch is in flight.
C14_StartThenEveryExpiry ==
    /\ [](timerDue # NULL => now <= timerDue)
    /\ [][(mounted = "new" /\ mounted' = "mounted")
             => /\ IssuesOne(TRUE)
                /\ isLoading'
                /\ timerDue' = now + POLL_INTERVAL]_vars
    /\ [][(timerDue # NULL /\ timerDue' # NULL /\ timerDue' # timerDue
                /\ UNCHANGED viewVars)
             => /\ now = timerDue
                /\ timerDue' = timerDue + POLL_INTERVAL
                /\ IssuesOne(FALSE)
                /\ isRefreshing']_vars

\* C14 witness: one interval after the start the timer has issued a
\* non-initial fetch while the initial fetch is still in flight.
C14_Witness ==
    /\ now = POLL_INTERVAL
    /\ timerDue = 2 * POLL_INTERVAL
    /\ isLoading
    /\ isRefreshing
    /\ \E f, g \in fetches : f.initial /\ ~g.initial /\ g.seq = f.seq + 1

\* C15: a step that issues a non-initial fetch issues exactly one, and unless
\* it is the expiry of the interval timer itself it leaves the timer as it
\* was: refresh() neither cancels nor restarts the timer, whose next expiry
\* stays where it was.
C15_RefreshLeavesTimer ==
    [][(\E f \in fetches' : f \notin fetches /\ ~f.initial)
          => /\ IssuesOne(FALSE)
             /\ \/ timerDue' = timerDue
                \/ /\ timerDue # NULL
                   /\ now = timerDue
                   /\ timerDue' = timerDue + POLL_INTERVAL]_vars

\* C15 witness: half an interval after the start a refresh() fetch is in
\* flight and the timer is still due at the end of the first interval.
C15_Witness ==
    /\ now = TimeStep
    /\ timerDue = POLL_INTERVAL
    /\ isRefreshing
    /\ \E f \in fetches : ~f.initial

\* C16: the teardown step cancels the interval timer and leaves the fetches
\* in flight as they are; after it no timer is armed and no step issues a
\* fetch other than the continuation of an action handler that calls
\* refresh(), while every fetch still in flight can complete.
C16_StopCancelsTimer ==
    /\ [](mounted = "unmounted" => timerDue = NULL)
    /\ [](mounted = "unmounted"
             => \A f \in fetches : ENABLED FetchSucceeded(f))
    /\ [][(mounted = "mounted" /\ mounted' = "unmounted")
             => /\ timerDue' = NULL
                /\ fetches' = fetches
                /\ UNCHANGED <<pollVars, flagVars, nextSeq>>]_vars
    /\ [][mounted = "unmounted"
             => /\ timerDue' = NULL
                /\ \/ fetches' \subseteq fetches /\ nextSeq' = nextSeq
                   \/ \E a \in Pending : Settles(a)]_vars

\* C16 witness: the view was torn down, the clock has reached the expiry the
\* timer was armed for, only the initial fetch was ever issued and it is
\* still in flight.
C16_Witness ==
    /\ mounted = "unmounted"
    /\ now >= POLL_INTERVAL
    /\ nextSeq = 2
    /\ \E f \in fetches : f.initial

\* a step in which the view navigates: the page or the filter of the URL
\* changes
Navigates == page' # page \/ processedParam' # processedParam

\* a step in which Previous or Next is clicked: router.push of a URL
Pushes(control) == pendingNav' # pendingNav /\ pendingNav'.nav = control

\* C17: a navigation made with a filter button lands on page 1 whatever the
\* page before, and the list fetch it issues asks for page 1 of the new
\* filter; the URL pushed by Previous or Next carries the current processed
\* filter, and a navigation made with them keeps the processed filter and the
\* list fetch it issues carries that filter.
C17_FilterResetsPagePagingKeepsFilter ==
    [][/\ (Navigates /\ nav' = "filter")
             => /\ page' = 1
                /\ \E f \in fetches' :
                      /\ f \notin fetches
                      /\ ListQuery(f.page, f.processed)
                            = [page |-> <<String(1)>>, page_size |-> String(PAGE_SIZE),
                               processed |-> processedParam']
       /\ (Pushes("prev") \/ Pushes("next"))
             => pendingNav'.processed = processedParam
       /\ (Navigates /\ nav' \in {"prev", "next"})
             => /\ processedParam' = processedParam
                /\ \E f \in fetches' :
                      /\ f \notin fetches
                      /\ ListQuery(f.page, f.processed).processed = processedParam
                      /\ ListQuery(f.page, f.processed).page = <<String(page')>>]_vars

\* C17 witness: while page 3 of the unfiltered list is displayed the filter
\* was changed to processed, and a fetch for page 1 of that filter is in
\* flight.
C17_Witness ==
    /\ nav = "filter"
    /\ data # NullData
    /\ data.page = 3
    /\ processedParam = "true"
    /\ page = 1
    /\ \E f \in fetches : f.page = 1 /\ f.processed = "true"

\* C18: Previous is not offered when the displayed snapshot is on page 1 and
\* Next is not offered when it is on its last page; the URL pushed by a click
\* on Previous or Next names the page before or after the displayed one, and
\* that page lies in [1, pages] of the displayed snapshot.
C18_PrevNextWithinSnapshot ==
    /\ []((Rendered /\ data.page = 1) => ~PrevShown)
    /\ []((Rendered /\ data.page = data.pages) => ~NextShown)
    /\ [][(Pushes("prev") \/ Pushes("next"))
             => LET target == PageOf(pendingNav'.pageParam)
                IN  /\ target = data.page + (IF Pushes("next") THEN 1 ELSE 0 - 1)
                    /\ 1 <= target
                    /\ target <= data.pages]_vars

\* C18 witness: Next led to the last page of a list of several pages, which
\* is displayed with Previous offered and Next not offered.
C18_Witness ==
    /\ nav = "next"
    /\ Rendered
    /\ data.pages > 1
    /\ data.page = data.pages
    /\ page = data.page
    /\ PrevShown
    /\ ~NextShown

\* C19: the page the signals view derives from the page URL parameter, and
\* passes to the list fetch, is an integer >= 1 for every value of the
\* parameter.
C19_PageAtLeastOne ==
    /\ page # NaN
    /\ page >= 1
    /\ \A f \in fetches : f.page # NaN /\ f.page >= 1

\* C20: when request() settles for a response with a non-success status it
\* has failed with an ApiError that carries the status of the response and as
\* message the `detail` member of the JSON body, or "Unknown error" when the
\* body is not JSON.
C20_NonSuccessGivesApiError ==
    (outcome # NoOutcome /\ response.kind = "http" /\ ~Ok(response.status))
    => /\ outcome.kind = "ApiError"
       /\ outcome.status = response.status
       /\ outcome.message = (IF response.body.parses
                             THEN DetailOf(response.body)
                             ELSE "Unknown error")

\* C21: request() calls fetch() once per call, and when fetch() fails without
\* a response the call fails with an error that is not the ApiError of the
\* HTTP error path and carries no status.
C21_NetworkFailureOneAttempt ==
    /\ attempts <= 1
    /\ (outcome # NoOutcome /\ response.kind = "networkError")
          => /\ outcome.kind \notin {"ApiError", "value"}
             /\ "status" \notin DOMAIN outcome

\* C21 witness: a call has failed after its single fetch() was rejected.
C21_Witness ==
    /\ response.kind = "networkError"
    /\ outcome.kind = "TypeError"
    /\ attempts = 1

\* C24: in the step in which a confirmed bulk delete settles with success
\* (the step that also requests the refresh) the count reported with alert()
\* is the deleted_count of the backend's response to that call; in the step
\* in which it settles with failure no count is reported.
C24_ReportsBackendDeletedCount ==
    [][\A a \in Pending :
          (a.kind \in BulkKinds /\ Settles(a))
          => IF nextSeq' # nextSeq
             THEN alerted' = DeleteAllResponse(backend, others, a.kind).deleted_count
             ELSE alerted' = alerted]_vars

\* C24 witness: a bulk delete of the processed rows has settled and reported
\* the number of rows it removed, while rows that were not processed remain
\* and the displayed snapshot still counts them all.
C24_Witness ==
    /\ alerted = OtherRows
    /\ others = 0
    /\ BagToSet(actions) = {}
    /\ \E i \in Ids : backend[i] # Absent
    /\ data # NullData
    /\ data.total # alerted

\* C25: the step in which an action call of the signals page settles with
\* failure (the settling step that requests no refresh) puts an error message
\* before the user: it changes what the page displays or reports.
C25_FailedActionSurfaced ==
    [][\A a \in Pending :
          (Settles(a) /\ nextSeq' = nextSeq)
          => <<pollVars, alerted>>' # <<pollVars, alerted>>]_vars

\* C30: while a bulk delete is in flight no step dispatches an action
\* request: no second bulk delete and no confirm, reject or delete.
C30_BulkDeleteSerialized ==
    [][(\E b \in Pending : b.kind \in BulkKinds)
          => \A a \in BagToSet(actions') : ~Dispatches(a)]_vars

\* the fetch sh asked for the filter of the current URL and for the page the
\* backend serves for the page of the current URL
ForCurrentParameters(sh) ==
    /\ sh.seq > 0
    /\ sh.processed = processedParam
    /\ signalsApiList(backend, others, sh.page, sh.processed).page
         = signalsApiList(backend, others, page, processedParam).page

\* C26: once data holds the result of a fetch for the current page and
\* filter, no step that leaves the page and the filter as they are makes data
\* the result of a fetch for other parameters: a late completion of a fetch
\* issued with the old parameters is not displayed.
C26_LateOldFetchNotDisplayed ==
    [][(ForCurrentParameters(shown) /\ UNCHANGED viewVars)
          => ForCurrentParameters(shown')]_vars

\* C22: the object a page-level fetch returns holds, for every sub-call that
\* resolved, the result of that sub-call, and for every sub-call that
\* rejected, the fallback value of that source.
C22_FallbackPerSubCall ==
    aggResult # NoResult
    => \A c \in SubCalls(agg.page) :
          /\ agg.subs[c] = "ok" => aggResult.values[c] = ResultOf(c)
          /\ agg.subs[c] = "failed" => aggResult.values[c] = Fallback(agg.page, c)

\* C23: when the list call of the trades page rejects, fetchTrades returns
\* (it does not throw) and the list it returns is the snapshot with no items,
\* total 0, page 1, page_size 20 and pages 1, for which
\* pages = max(1, ceil(total / page_size)) and 1 <= page <= pages.
C23_ListFailureGivesFallbackSnapshot ==
    (aggResult # NoResult /\ agg.page = "trades" /\ agg.subs["trades"] = "failed")
    => /\ aggResult.kind = "returned"
       /\ LET t == aggResult.values["trades"]
          IN  /\ t = [kind |-> "snapshot", items |-> <<>>, total |-> 0, page |-> 1,
                      page_size |-> 20, pages |-> 1]
              /\ t.pages = Max(1, CeilDiv(t.total, t.page_size))
              /\ 1 <= t.page
              /\ t.page <= t.pages

\* C23 witness: fetchTrades has returned after its list call rejected while
\* its stats call resolved.
C23_Witness ==
    /\ aggResult # NoResult
    /\ agg.page = "trades"
    /\ agg.subs["trades"] = "failed"
    /\ agg.subs["stats"] = "ok"

\* C29: on the dashboard the poll error is absent in every reachable state,
\* and every fetch that settles, whichever of the five sub-calls failed,
\* replaces data by the object fetchDashboardData returned and sets
\* lastUpdated to the time of the completion.
C29_DashboardPollNeverFails ==
    /\ [](error = NoError)
    /\ [][fetches' # fetches /\ fetches' \subseteq fetches
            => /\ error' = NoError
               /\ lastUpdated' = now
               /\ data'.kind = "returned"
               /\ \A c \in SubCalls("dashboard") :
                     data'.values[c] \in {Fallback("dashboard", c), ResultOf(c)}
                                          \cup ActionStatuses]_vars

\* C29 witness: a poll cycle after the initial one has completed with all
\* five sub-calls failed.
C29_Witness ==
    /\ error = NoError
    /\ settled.seq = 2
    /\ lastUpdated > 0
    /\ "values" \in DOMAIN data
    /\ \A c \in SubCalls("dashboard") : data.values[c] = Fallback("dashboard", c)

\* C27: at most one trigger request is in flight; loading is non-null exactly
\* while a trigger request is in flight, and while it is non-null none of the
\* three trigger buttons can be clicked.
C27_OneTriggerInFlight ==
    /\ BagCardinality(triggers) <= 1
    /\ loading # NoLoading <=> BagCardinality(triggers) = 1
    /\ loading # NoLoading => BagIn(loading, triggers)
    /\ loading # NoLoading => \A k \in TriggerKinds : ~ENABLED handleAction(k)

\* C27 witness: a trigger request is in flight after an earlier one has
\* settled.
C27_Witness ==
    /\ loading = "cycle"
    /\ BagCardinality(triggers) = 1
    /\ BagCardinality(refreshTimers) = 1

\* C28: when a trigger request settles no fetch is issued in that step; a
\* resolved one sets exactly one timeout due 1000 ms later, a rejected one
\* sets none; and a timeout that expires does so at its due time and issues
\* exactly one refresh fetch.
C28_RefreshOneSecondAfterSuccess ==
    [][/\ BagCardinality(triggers') < BagCardinality(triggers)
          => /\ nextSeq' = nextSeq
             /\ fetches' = fetches
             /\ IF message'.type = "success"
                THEN refreshTimers' = refreshTimers (+) SetToBag({now + 1000})
                ELSE message'.type = "error" /\ refreshTimers' = refreshTimers
       /\ BagCardinality(refreshTimers') < BagCardinality(refreshTimers)
          => /\ BagIn(now, refreshTimers)
             /\ refreshTimers' = refreshTimers (-) SetToBag({now})
             /\ nextSeq' = nextSeq + 1
             /\ \E f \in fetches' \ fetches : ~f.initial]_vars

\* C28 witness: 1000 ms after a trigger resolved at time 0 its timeout has
\* expired and the refresh fetch is in flight.
C28_Witness ==
    /\ now = 1000
    /\ message.type = "success"
    /\ refreshTimers = EmptyBag
    /\ \E f \in fetches : ~f.initial

====
